---- MODULE Spec2Model ----
(***************************************************************************)
(* A model of the Gemma inference engine of PyTorch2MLX:                   *)
(*   - the Sampler (gemma_torch.py) and the MLXSampler (model_mlx.py),     *)
(*   - the attention block's KV-cache write / masked read,                 *)
(*   - GemmaForCausalLM.generate: prefill, the decode loop, detokenizing.  *)
(* Tensors are functions over 0-based index ranges, as in the source.      *)
(* Real-valued tensor arithmetic is modelled over the integers:            *)
(*   - hidden states, keys and values are residues modulo HiddenMod;       *)
(*   - a probability is an integer weight over the common total of the     *)
(*     softmax, and the softmax uses base 2 instead of base e, so that     *)
(*     every comparison of the source is an exact integer comparison;      *)
(*   - top_p is the rational top_p / TopPDen.                              *)
(***************************************************************************)
EXTENDS Integers, Sequences, FiniteSets, TLC

\* ---------------------------------------------------------------- bounds
MaxPromptLen == 2
MaxOutputLen == 3
VocabSize == 3
HiddenMod == 5
TopPDen == 4
MaxLogit == 2

\* the rotary embedding: head_dim = 2 * HalfDim, on RotSeqLen positions of
\* RotHeads heads, with channel values in 0..MaxX
HalfDim == 2
RotSeqLen == 2
RotHeads == 2
MaxX == 1

\* a layer's weight: WDim rows and columns, scales in 1..MaxScale, and the
\* calls made on one layer
WDim == 2
MaxScale == 2
MaxCalls == 2

\* one cache write: a cache of CacheLen positions, keys/values in 1..MaxKV
CacheLen == 4
MaxKV == 2

\* grouped-query attention: up to MaxKVHeads kv heads, each shared by up to
\* MaxQueriesPerKV query heads
MaxKVHeads == 3
MaxQueriesPerKV == 3

\* config.num_hidden_layers and config.max_position_embeddings
num_hidden_layers == 2
max_position_embeddings == 4

\* tokenizer.pad_id and tokenizer.eos_id
pad_id == 0
eos_id == 1

\* Python's None, for an optional tensor: the empty tuple
None == <<>>

Tokens == 0 .. (VocabSize - 1)

\* ---------------------------------------------------------------- helpers
Range0(n) == 0 .. (n - 1)

RECURSIVE SumFn(_, _)
\* the sum of f over the finite set S of its arguments
SumFn(f, S) ==
    IF S = {} THEN 0
    ELSE LET x == CHOOSE y \in S : TRUE IN f[x] + SumFn(f, S \ {x})

RECURSIVE Exp2(_)
Exp2(n) == IF n <= 0 THEN 1 ELSE 2 * Exp2(n - 1)

MinOf(S) == CHOOSE x \in S : \A y \in S : x <= y
MaxOf(S) == CHOOSE x \in S : \A y \in S : x >= y

\* ---------------------------------------------------------------- Sampler
\* torch.argmax / mxc.argmax: the first index holding the maximal value
ArgMax(logits) ==
    LET n == Cardinality(DOMAIN logits)
        best == MaxOf({logits[v] : v \in Range0(n)})
    IN MinOf({v \in Range0(n) : logits[v] = best})

\* logits.div_(temperatures): the source's true division, exact on the
\* inputs enumerated here (every logit is a multiple of every temperature)
ScaleLogits(logits, t) == [v \in DOMAIN logits |-> logits[v] \div t]

\* torch.softmax / mxc.softmax: weights over their total
Softmax(logits) == [v \in DOMAIN logits |-> Exp2(logits[v])]

Total(probs) == SumFn(probs, DOMAIN probs)

\* the permutations of 0..n-1
Perms0(n) ==
    {p \in [Range0(n) -> Range0(n)] : \A a, b \in Range0(n) : a # b => p[a] # p[b]}

\* torch.sort(descending=True): every index order that sorts probs
\* descending (the order among equal entries is unspecified)
SortDescending(probs) ==
    LET n == Cardinality(DOMAIN probs)
    IN {p \in Perms0(n) :
          \A r \in Range0(n - 1) : probs[p[r]] >= probs[p[r + 1]]}

\* mxc.sort / mxc.argsort: every index order that sorts probs ascending
SortAscending(probs) ==
    LET n == Cardinality(DOMAIN probs)
    IN {p \in Perms0(n) :
          \A r \in Range0(n - 1) : probs[p[r]] <= probs[p[r + 1]]}

\* torch.cumsum(probs_sort, dim=-1)
CumSum(ps) == [r \in DOMAIN ps |-> SumFn(ps, {q \in DOMAIN ps : q <= r})]

\* mxc.cumsum(probs_sort, axis=-1, reverse=True)
CumSumReverse(ps) == [r \in DOMAIN ps |-> SumFn(ps, {q \in DOMAIN ps : q >= r})]

\* top_ps_mask = (probs_sum - probs_sort) > top_ps, over weights of total w
TopPsMask(probs_sum, probs_sort, top_p, w) ==
    [r \in DOMAIN probs_sort |->
        (probs_sum[r] - probs_sort[r]) * TopPDen > top_p * w]

\* a top-k mask that is off by one: arange(n) >= top_ks - 1
TopKsMaskOffByOne(probs_sort, top_k) == [r \in DOMAIN probs_sort |-> r + 1 >= top_k]

\* torch: top_ks_mask = arange(n) >= top_ks
TopKsMask(probs_sort, top_k) == [r \in DOMAIN probs_sort |-> r >= top_k]

\* MLX: top_ks_mask = arange(n) < top_ks
MLXTopKsMask(probs_sort, top_k) == [r \in DOMAIN probs_sort |-> r < top_k]

\* torch.where(mask, 0, probs_sort)
WhereZero(mask, ps) == [r \in DOMAIN ps |-> IF mask[r] THEN 0 ELSE ps[r]]

\* torch.argsort(probs_idx): the inverse of the sort permutation
ArgSortIdx(probs_idx) ==
    [v \in DOMAIN probs_idx |-> CHOOSE r \in DOMAIN probs_idx : probs_idx[r] = v]

\* torch.gather(probs_sort, dim=-1, index=index)
Gather(ps, index) == [v \in DOMAIN index |-> ps[index[v]]]

\* what a sampler call computed; greedy calls compute none of the filters
NoRun(logits) ==
    [greedy |-> TRUE, probs |-> logits, probs_idx |-> [v \in DOMAIN logits |-> v],
     after_top_p |-> logits, after_top_k |-> logits, norm_sum |-> 0,
     div_by_zero |-> FALSE, dist |-> logits]

\* Sampler.forward, lines 78-104, for one sequence and one sort order
TorchSamplerRun(logits, t, top_p, top_k, probs_idx) ==
    LET probs       == Softmax(ScaleLogits(logits, t))
        probs_sort  == [r \in DOMAIN probs |-> probs[probs_idx[r]]]
        probs_sum   == CumSum(probs_sort)
        top_ps_mask == TopPsMask(probs_sum, probs_sort, top_p, Total(probs))
        sort_p      == WhereZero(top_ps_mask, probs_sort)
        top_ks_mask == TopKsMask(probs_idx, top_k)
        sort_pk     == WhereZero(top_ks_mask, sort_p)
        norm_sum    == Total(sort_pk)
    IN [greedy |-> FALSE, probs |-> probs, probs_idx |-> probs_idx,
        after_top_p |-> sort_p, after_top_k |-> sort_pk, norm_sum |-> norm_sum,
        div_by_zero |-> (norm_sum = 0),
        dist |-> Gather(sort_pk, ArgSortIdx(probs_idx))]

\* MLXSampler.__call__, lines 75-107, for one sequence and one sort order:
\* the filtered probs_sort is renormalized and then dropped, np_probs is
\* the unfiltered softmax
MLXSamplerRun(logits, t, top_p, top_k, probs_idx) ==
    LET probs       == Softmax(ScaleLogits(logits, t))
        probs_sort  == [r \in DOMAIN probs |-> probs[probs_idx[r]]]
        probs_sum   == CumSumReverse(probs_sort)
        top_ps_mask == TopPsMask(probs_sum, probs_sort, top_p, Total(probs))
        sort_p      == WhereZero(top_ps_mask, probs_sort)
        top_ks_mask == MLXTopKsMask(probs_idx, top_k)
        sort_pk     == WhereZero(top_ks_mask, sort_p)
        norm_sum    == Total(sort_pk)
    IN [greedy |-> FALSE, probs |-> probs, probs_idx |-> probs_idx,
        after_top_p |-> sort_p, after_top_k |-> sort_pk, norm_sum |-> norm_sum,
        div_by_zero |-> (norm_sum = 0),
        dist |-> probs]

\* torch.multinomial(probs, 1) / np.random.choice(n, p=np_probs): any index
\* of positive probability. After a division by a zero sum the distribution
\* is NaN: the library call raises or, on a device that does not check,
\* returns an arbitrary index.
Multinomial(run, nan) ==
    IF nan
    THEN {[status |-> "RuntimeError", token |-> 0, run |-> run]}
         \cup {[status |-> "ok", token |-> v, run |-> run] : v \in DOMAIN run.dist}
    ELSE {[status |-> "ok", token |-> v, run |-> run] :
             v \in {u \in DOMAIN run.dist : run.dist[u] > 0}}

\* Sampler.forward, lines 74-107: every outcome of one call for one sequence
SamplerForward(logits, temperatures, top_p, top_k) ==
    IF temperatures = None
    THEN {[status |-> "ok", token |-> ArgMax(logits), run |-> NoRun(logits)]}
    ELSE UNION {Multinomial(TorchSamplerRun(logits, temperatures[1], top_p, top_k, idx),
                            TorchSamplerRun(logits, temperatures[1], top_p, top_k, idx).div_by_zero)
                : idx \in SortDescending(Softmax(ScaleLogits(logits, temperatures[1])))}

\* MLXSampler.__call__, lines 71-109: every outcome of one call. The greedy
\* branch calls mxc.argmax(logits, dim=-1), a keyword mxc.argmax does not
\* take (its parameter is axis), so the call raises.
MLXSamplerCall(logits, temperatures, top_p, top_k) ==
    IF temperatures = None
    THEN {[status |-> "TypeError", token |-> 0, run |-> NoRun(logits)]}
    ELSE UNION {Multinomial(MLXSamplerRun(logits, temperatures[1], top_p, top_k, idx), FALSE)
                : idx \in SortAscending(Softmax(ScaleLogits(logits, temperatures[1])))}

\* ---------------------------------------------------------------- tensors
Len0(f) == Cardinality(DOMAIN f)

\* the elements of a 0-based list
Elems(f) == {f[j] : j \in DOMAIN f}

\* Python's list[a:b] on a 0-based list
Slice(f, a, b) ==
    LET hi == IF b < Len0(f) THEN b ELSE Len0(f)
    IN [j \in Range0(IF hi > a THEN hi - a ELSE 0) |-> f[a + j]]

\* ---------------------------------------------------------------- rotary embedding
\* x.transpose(1, 2) of [batch, seq, heads, head_dim], for one batch entry
Transpose12(x) ==
    [a \in DOMAIN x[0] |-> [c \in DOMAIN x |-> x[c][a]]]

\* torch.chunk(v, 2, dim=-1)[k] / v[..., :n//2], v[..., n//2:]: half k of the
\* last dimension
Chunk2(v, k) ==
    [j \in Range0(Len0(v) \div 2) |-> v[k * (Len0(v) \div 2) + j]]

\* torch.stack([a, b], dim=-1) / mxc.stack([a, b], axis=-1)
StackLast(a, b) ==
    [j \in DOMAIN a |-> [c \in Range0(2) |-> IF c = 0 THEN a[j] ELSE b[j]]]

\* view_as_complex(x_) * freqs_cis, view_as_real: the product of the complex
\* numbers z[0] + z[1] i and w[0] + w[1] i
ComplexMul(z, w) ==
    [c \in Range0(2) |-> IF c = 0 THEN z[0] * w[0] - z[1] * w[1]
                                   ELSE z[1] * w[0] + z[0] * w[1]]

\* torch.chunk(x_out, 2, dim=-1)[k] / x_out[..., k][..., None]: the [n][1]
\* tensor of component k
ChunkLast(t, k) == [j \in DOMAIN t |-> [c \in Range0(1) |-> t[j][k]]]

\* torch.cat([a, b], dim=-2) / mxc.concatenate([a, b], axis=3)
CatRows(a, b) ==
    [j \in Range0(Len0(a) + Len0(b)) |-> IF j < Len0(a) THEN a[j] ELSE b[j - Len0(a)]]

\* reshape(shape[0], shape[1], shape[2], -1): the two last dimensions
\* flattened in row-major order
FlattenLast2(t) ==
    [k \in Range0(Len0(t) * Len0(t[0])) |-> t[k \div Len0(t[0])][k % Len0(t[0])]]

\* a reassembly that flattens the (real, imag) pairs as they are: channel
\* 2j is the real part and channel 2j + 1 the imaginary part of pair j
ReassembleInterleaved(x_out) == FlattenLast2(x_out)

\* apply_rotary_emb, lines 44-45: torch.cat(torch.chunk(x_out, 2, dim=-1),
\* dim=-2), then the reshape
Reassemble(x_out) ==
    FlattenLast2(CatRows(ChunkLast(x_out, 0), ChunkLast(x_out, 1)))

\* apply_rotary_emb, lines 42-43, for the channels v of one head at one
\* position with the table row f of that position
RotatePairs(v, f) ==
    [j \in Range0(Len0(v) \div 2) |->
        ComplexMul(StackLast(Chunk2(v, 0), Chunk2(v, 1))[j], f[j])]

\* apply_rotary_emb of gemma_torch.py: x is [seq][heads][head_dim], freqs_cis
\* is [seq][head_dim / 2] complex
apply_rotary_emb(x, freqs_cis) ==
    Transpose12([a \in DOMAIN x[0] |-> [c \in DOMAIN x |->
                    Reassemble(RotatePairs(Transpose12(x)[a][c], freqs_cis[c]))]])

\* MLXapply_rotary_emb, lines 39-42: the real and the imaginary parts, each
\* with a new last axis, concatenated on axis 3, then the reshape
MLXReassemble(x_out) ==
    FlattenLast2(CatRows(ChunkLast(x_out, 0), ChunkLast(x_out, 1)))

\* MLXapply_rotary_emb, lines 30-36: freqs_cis holds (cos, sin) on its last
\* axis
MLXRotatePairs(v, f) ==
    [j \in Range0(Len0(v) \div 2) |->
        [c \in Range0(2) |->
            IF c = 0
            THEN StackLast(Chunk2(v, 0), Chunk2(v, 1))[j][0] * f[j][0]
                   - StackLast(Chunk2(v, 0), Chunk2(v, 1))[j][1] * f[j][1]
            ELSE StackLast(Chunk2(v, 0), Chunk2(v, 1))[j][1] * f[j][0]
                   + StackLast(Chunk2(v, 0), Chunk2(v, 1))[j][0] * f[j][1]]]

\* MLXapply_rotary_emb of model_mlx.py
MLXapply_rotary_emb(x, freqs_cis) ==
    Transpose12([a \in DOMAIN x[0] |-> [c \in DOMAIN x |->
                    MLXReassemble(MLXRotatePairs(Transpose12(x)[a][c], freqs_cis[c]))]])

\* ---------------------------------------------------------------- forward
\* embed_tokens, scaled by sqrt(hidden_size): a nonzero hidden state per id
Embed(tok) == tok + 1

\* k_proj / v_proj followed by the rotary embedding at the row's position:
\* the key/value stored for a hidden state
KeyValue(x, pos) == (2 * x + pos + 1) % HiddenMod

\* a cache allocated one position short
ZeroCacheShort(n) == [t \in Range0(n - 1) |-> [v |-> 0, n |-> 0]]

\* torch.zeros(size): a cache row; n counts the writes to a position and is
\* 0 while the position still holds its zero-initialized value
ZeroCache(n) == [t \in Range0(n) |-> [v |-> 0, n |-> 0]]

\* k_cache.index_copy_(1, kv_write_indices, xk)
IndexCopy(cache, kv_write_indices, xk) ==
    [t \in DOMAIN cache |->
        IF \E j \in DOMAIN kv_write_indices : kv_write_indices[j] = t
        THEN [v |-> xk[CHOOSE j \in DOMAIN kv_write_indices : kv_write_indices[j] = t],
              n |-> cache[t].n + 1]
        ELSE cache[t]]

\* the mask built with diagonal=2: the key after the query stays visible
MaskTensorDiagonal2(n) == [q \in Range0(n) |-> [t \in Range0(n) |-> t - q >= 2]]

\* torch.triu(torch.full((n, n), -2.3819763e38), diagonal=1): TRUE where the
\* sentinel stays (key t is masked for query q), FALSE where the entry is 0
MaskTensor(n) == [q \in Range0(n) |-> [t \in Range0(n) |-> t - q >= 1]]

\* mask_tensor.index_select(2, input_positions)
IndexSelect(mask, positions) == [j \in DOMAIN positions |-> mask[positions[j]]]

\* the key positions a mask row leaves to the softmax
Unmasked(cache, maskrow) == {t \in DOMAIN cache : ~maskrow[t]}

\* scores = q k^T * scaling + mask; softmax; scores v: every unmasked cache
\* position contributes, weighted by its position, written or not
Attend(x, cache, maskrow) ==
    (x * SumFn([t \in DOMAIN cache |-> (t + 1) * cache[t].v + 1],
               Unmasked(cache, maskrow))) % HiddenMod

\* GemmaAttention.forward, lines 276-303: the read of the full cache under
\* the mask, after the write
AttentionRead(hidden_states, cache, mask) ==
    [out   |-> [j \in DOMAIN hidden_states |->
                   Attend(hidden_states[j] + 1, cache, mask[j])],
     cache |-> cache,
     keys  |-> [j \in DOMAIN hidden_states |-> Unmasked(cache, mask[j])],
     stale |-> [j \in DOMAIN hidden_states |->
                   {t \in Unmasked(cache, mask[j]) : cache[t].n = 0}]]

\* GemmaAttention.forward for one sequence of the batch: the write of the
\* new keys/values, then the read of the full cache under the mask
GemmaAttention(hidden_states, kv_write_indices, kv_cache, mask) ==
    AttentionRead(hidden_states,
                  IndexCopy(kv_cache, kv_write_indices,
                            [j \in DOMAIN hidden_states |->
                                KeyValue(hidden_states[j], kv_write_indices[j])]),
                  mask)

\* GemmaMLP.forward
GemmaMLP(x) == (x * x + 1) % HiddenMod

\* GemmaDecoderLayer.forward, lines 345-352, given the attention's result a
AfterAttention(hidden_states, a) ==
    [hs    |-> [j \in DOMAIN hidden_states |->
                   LET h1 == (hidden_states[j] + a.out[j]) % HiddenMod
                   IN (h1 + GemmaMLP(h1)) % HiddenMod],
     cache |-> a.cache, keys |-> a.keys, stale |-> a.stale]

\* GemmaDecoderLayer.forward: the two residual sub-blocks
GemmaDecoderLayer(hidden_states, kv_write_indices, kv_cache, mask) ==
    AfterAttention(hidden_states,
                   GemmaAttention(hidden_states, kv_write_indices, kv_cache, mask))

RECURSIVE GemmaModel(_, _, _, _, _, _)
\* GemmaModel.forward, the rest of the loop after layer l returned r
AfterLayer(l, r, kv_write_indices, caches, mask, log) ==
    GemmaModel(l + 1, r.hs, kv_write_indices,
               [caches EXCEPT ![l] = r.cache], mask,
               [log EXCEPT ![l] = [keys |-> r.keys, stale |-> r.stale]])

\* GemmaModel.forward for one sequence: layers l..num_hidden_layers in order,
\* each on its own cache; log collects what each layer's attention read
GemmaModel(l, hidden_states, kv_write_indices, caches, mask, log) ==
    IF l > num_hidden_layers
    THEN [hs |-> hidden_states, caches |-> caches, log |-> log]
    ELSE AfterLayer(l, GemmaDecoderLayer(hidden_states, kv_write_indices, caches[l], mask),
                    kv_write_indices, caches, mask, log)

\* logits = hidden_states @ embedding.t(), the tied embedding matrix
Logits(h) == [v \in Tokens |-> 2 * (((h + 1) * Embed(v)) % HiddenMod)]

\* GemmaForCausalLM.forward, lines 446-458: the logits of the model's result
ForwardResult(m, output_positions) ==
    [logits |-> Logits(m.hs[output_positions]), caches |-> m.caches, log |-> m.log]

\* GemmaForCausalLM.forward up to the sampler, for sequence b of the batch:
\* kv_write_indices = input_positions
ForwardRow(input_token_ids, input_positions, caches, mask, output_positions) ==
    ForwardResult(
        GemmaModel(1, [j \in DOMAIN input_token_ids |-> Embed(input_token_ids[j])],
                   input_positions, caches, mask,
                   [l \in 1 .. num_hidden_layers |-> [keys |-> <<>>, stale |-> <<>>]]),
        output_positions)

\* ---------------------------------------------------------------- state
VARIABLES
    requests,                \* the generate calls made on the model instance, in order
    call,                    \* the index in requests of the current call (0: none yet)
    pc,                      \* "idle" | "loop" | "done" | "failed"
    returned,                \* what each finished call returned or raised
    \* generate's locals
    batch_size, prompt_tokens, output_len,
    min_prompt_len, max_prompt_len, max_seq_len,
    kv_caches,               \* [layer][sequence][position]
    token_ids_tensor, input_token_ids_tensor, prompt_mask_tensor,
    input_positions_tensor, curr_mask_tensor, output_positions_tensor,
    temperatures_tensor, top_ps_tensor, top_ks_tensor,
    output_index,
    i,                       \* the iterations of the for loop completed
    \* history, for stating the properties
    next_token_log,          \* output index -> the next_token_ids the forward call returned
    attn_log,                \* the last forward call: what each attention read
    \* one call of a sampler on its own
    s_pc, s_in, s_out

gen_locals ==
    <<batch_size, prompt_tokens, output_len, min_prompt_len, max_prompt_len,
      max_seq_len, kv_caches, token_ids_tensor, input_token_ids_tensor,
      prompt_mask_tensor, input_positions_tensor, curr_mask_tensor,
      output_positions_tensor, temperatures_tensor, top_ps_tensor, top_ks_tensor,
      output_index, i, next_token_log, attn_log>>

gen_vars == <<requests, call, pc, returned, gen_locals>>

s_vars == <<s_pc, s_in, s_out>>

vars == <<gen_vars, s_vars>>

\* ---------------------------------------------------------------- inputs
\* the ids the prompts are written in: the pad id, the eos id and an
\* ordinary id
PromptTokens == {pad_id, eos_id, VocabSize - 1}

\* tokenizer.encode(prompt): a non-empty list of token ids
PromptSet == UNION {[Range0(n) -> PromptTokens] : n \in 1 .. MaxPromptLen}

Request(prompts, ol, temperature, top_p, top_k) ==
    [prompts |-> prompts, output_len |-> ol, temperature |-> temperature,
     top_p |-> top_p, top_k |-> top_k]

\* the batch scenario: two prompts in one batch, then each prompt alone, with
\* greedy decoding
BatchScenarios ==
    {<<Request([b \in Range0(2) |-> IF b = 0 THEN p1 ELSE p2], ol, None, TopPDen, VocabSize),
       Request([b \in Range0(1) |-> p1], ol, None, TopPDen, VocabSize),
       Request([b \in Range0(1) |-> p2], ol, None, TopPDen, VocabSize)>> :
         p1 \in PromptSet, p2 \in PromptSet, ol \in 1 .. MaxOutputLen}

\* the temperature, top_p and top_k of a call with one prompt: temperature
\* 0, or sampling with a temperature
SingleParams ==
    {<<<<0>>, TopPDen, VocabSize>>}
    \cup ({<<2>>} \X {TopPDen \div 2, TopPDen} \X {1, 2})

\* one call with one prompt
SingleScenarios ==
    {<<Request([b \in Range0(1) |-> p], ol, sp[1], sp[2], sp[3])>> :
         p \in PromptSet, ol \in 1 .. MaxOutputLen, sp \in SingleParams}

NoLocals ==
    /\ batch_size = 0 /\ prompt_tokens = <<>> /\ output_len = 0
    /\ min_prompt_len = 0 /\ max_prompt_len = 0 /\ max_seq_len = 0
    /\ kv_caches = <<>> /\ token_ids_tensor = <<>> /\ input_token_ids_tensor = <<>>
    /\ prompt_mask_tensor = <<>> /\ input_positions_tensor = <<>>
    /\ curr_mask_tensor = <<>> /\ output_positions_tensor = 0
    /\ temperatures_tensor = None /\ top_ps_tensor = <<>> /\ top_ks_tensor = <<>>
    /\ output_index = 0 /\ i = 0 /\ next_token_log = <<>> /\ attn_log = <<>>

SamplerIdle == s_pc = "off" /\ s_in = <<>> /\ s_out = <<>>

Init ==
    /\ requests \in BatchScenarios \cup SingleScenarios
    /\ call = 0 /\ pc = "idle" /\ returned = <<>>
    /\ NoLocals
    /\ SamplerIdle

\* ---------------------------------------------------------------- generate
\* the check against the length of the rotary table (max_seq_len * 2 of
\* __init__) instead of the context length
ContextCheckTableLen(n) == n <= 2 * max_position_embeddings

\* assert max_seq_len <= self.config.max_position_embeddings
ContextCheck(n) == n <= max_position_embeddings

\* a test that takes only None for greedy decoding
TemperaturesTensorNoneOnly(temperature, n) ==
    IF temperature = None THEN None ELSE [b \in Range0(n) |-> temperature[1]]

\* None if not temperature else torch.FloatTensor([temperature] * batch_size)
TemperaturesTensor(temperature, n) ==
    IF temperature = None \/ temperature[1] = 0
    THEN None
    ELSE [b \in Range0(n) |-> temperature[1]]

\* a loop that stops one step early
LoopRangeShort(n, m) == n - m - 1

\* range(max_seq_len - min_prompt_len)
LoopRange(n, m) == n - m

\* positions that start at 1
ArangeFromOne(n) == [j \in Range0(n) |-> j + 1]

\* torch.arange(0, min_prompt_len)
Arange(n) == [j \in Range0(n) |-> j]

\* an input position that stays on the position of the previous call
InputPositionsStuck(index) == [j \in Range0(1) |-> index - 1]

\* input_positions_tensor = output_index.unsqueeze(dim=-1)
NextInputPositions(index) == [j \in Range0(1) |-> index]

\* generate, lines 473-514: the setup of one call
Begin ==
    /\ pc \in {"idle", "done", "failed"}
    /\ call < Len(requests)
    /\ LET r   == requests[call + 1]
           pts == r.prompts
           B   == Range0(Len0(pts))
           mn  == MinOf({Len0(pts[b]) : b \in B})
           mx  == MaxOf({Len0(pts[b]) : b \in B})
           n   == mx + r.output_len
           tok == [b \in B |-> [t \in Range0(n) |->
                                   IF t < Len0(pts[b]) THEN pts[b][t] ELSE pad_id]]
           pos == Arange(mn)
       IN /\ call' = call + 1
          /\ batch_size' = Len0(pts)
          /\ prompt_tokens' = pts
          /\ output_len' = r.output_len
          /\ min_prompt_len' = mn
          /\ max_prompt_len' = mx
          /\ max_seq_len' = n
          /\ i' = 0
          /\ next_token_log' = <<>>
          /\ attn_log' = <<>>
          /\ IF ~ContextCheck(n)
             THEN /\ pc' = "failed"
                  /\ returned' = Append(returned, [status |-> "AssertionError", results |-> <<>>])
                  /\ kv_caches' = <<>>
                  /\ token_ids_tensor' = <<>>
                  /\ input_token_ids_tensor' = <<>>
                  /\ prompt_mask_tensor' = <<>>
                  /\ input_positions_tensor' = <<>>
                  /\ curr_mask_tensor' = <<>>
                  /\ output_positions_tensor' = 0
                  /\ temperatures_tensor' = None
                  /\ top_ps_tensor' = <<>>
                  /\ top_ks_tensor' = <<>>
                  /\ output_index' = 0
             ELSE /\ pc' = "loop"
                  /\ returned' = returned
                  /\ kv_caches' = [l \in 1 .. num_hidden_layers |-> [b \in B |-> ZeroCache(n)]]
                  /\ token_ids_tensor' = tok
                  /\ input_token_ids_tensor' = [b \in B |-> [j \in Range0(mn) |-> pts[b][j]]]
                  /\ prompt_mask_tensor' = [b \in B |-> [t \in Range0(n) |-> tok[b][t] # pad_id]]
                  /\ input_positions_tensor' = pos
                  /\ curr_mask_tensor' = IndexSelect(MaskTensor(n), pos)
                  /\ output_positions_tensor' = mn - 1
                  /\ temperatures_tensor' = TemperaturesTensor(r.temperature, Len0(pts))
                  /\ top_ps_tensor' = [b \in B |-> r.top_p]
                  /\ top_ks_tensor' = [b \in B |-> r.top_k]
                  /\ output_index' = mn
    /\ UNCHANGED <<requests, s_vars>>

\* torch.where(curr_prompt_mask, curr_token_ids, next_token_ids)
OutputTokenIds(curr_prompt_mask, curr_token_ids, next_token_ids) ==
    [b \in DOMAIN next_token_ids |->
        IF curr_prompt_mask[b] THEN curr_token_ids[b] ELSE next_token_ids[b]]

\* generate, lines 518-543: one iteration of the loop, the forward call and
\* the bookkeeping after it
Step ==
    /\ pc = "loop"
    /\ i < LoopRange(max_seq_len, min_prompt_len)
    /\ \E fwd \in {[b \in Range0(batch_size) |->
                      ForwardRow(input_token_ids_tensor[b], input_positions_tensor,
                                 [l \in 1 .. num_hidden_layers |-> kv_caches[l][b]],
                                 curr_mask_tensor, output_positions_tensor)]} :
       LET B    == Range0(batch_size)
           outs == [b \in B |->
                      SamplerForward(fwd[b].logits,
                                     IF temperatures_tensor = None THEN None
                                     ELSE <<temperatures_tensor[b]>>,
                                     top_ps_tensor[b], top_ks_tensor[b])]
       IN \E pick \in [B -> UNION {outs[b] : b \in B}] :
            /\ \A b \in B : pick[b] \in outs[b]
            /\ kv_caches' = [l \in 1 .. num_hidden_layers |-> [b \in B |-> fwd[b].caches[l]]]
            /\ attn_log' = [positions |-> input_positions_tensor,
                            layers |-> [l \in 1 .. num_hidden_layers |->
                                           [b \in B |-> fwd[b].log[l]]]]
            /\ IF \E b \in B : pick[b].status # "ok"
               THEN /\ pc' = "failed"
                    /\ returned' = Append(returned, [status |-> "RuntimeError", results |-> <<>>])
                    /\ UNCHANGED <<token_ids_tensor, input_token_ids_tensor,
                                   input_positions_tensor, curr_mask_tensor,
                                   output_positions_tensor, output_index, i,
                                   next_token_log>>
               ELSE LET next_token_ids   == [b \in B |-> pick[b].token]
                        curr_prompt_mask == [b \in B |-> prompt_mask_tensor[b][output_index]]
                        curr_token_ids   == [b \in B |-> token_ids_tensor[b][output_index]]
                        output_token_ids == OutputTokenIds(curr_prompt_mask, curr_token_ids,
                                                           next_token_ids)
                        positions        == NextInputPositions(output_index)
                    IN /\ token_ids_tensor' =
                             [b \in B |-> [token_ids_tensor[b] EXCEPT
                                              ![output_index] = output_token_ids[b]]]
                       /\ input_token_ids_tensor' =
                             [b \in B |-> [j \in Range0(1) |-> output_token_ids[b]]]
                       /\ input_positions_tensor' = positions
                       /\ curr_mask_tensor' = IndexSelect(MaskTensor(max_seq_len), positions)
                       /\ output_positions_tensor' = 0
                       /\ output_index' = output_index + 1
                       /\ i' = i + 1
                       /\ next_token_log' =
                             [t \in DOMAIN next_token_log \cup {output_index} |->
                                 IF t = output_index THEN next_token_ids
                                 ELSE next_token_log[t]]
                       /\ UNCHANGED <<pc, returned>>
    /\ UNCHANGED <<requests, call, batch_size, prompt_tokens, output_len,
                   min_prompt_len, max_prompt_len, max_seq_len, prompt_mask_tensor,
                   temperatures_tensor, top_ps_tensor, top_ks_tensor, s_vars>>

\* the cut that keeps the eos id: trimmed_output[:eos_index + 1]
CutAfterEos(trimmed_output) ==
    IF eos_id \in Elems(trimmed_output)
    THEN Slice(trimmed_output, 0,
               MinOf({j \in DOMAIN trimmed_output : trimmed_output[j] = eos_id}) + 1)
    ELSE trimmed_output

\* trimmed_output[:trimmed_output.index(eos_id)] when eos_id is in it
CutAtEos(trimmed_output) ==
    IF eos_id \in Elems(trimmed_output)
    THEN Slice(trimmed_output, 0,
               MinOf({j \in DOMAIN trimmed_output : trimmed_output[j] = eos_id}))
    ELSE trimmed_output

\* tokens[len(prompt_tokens[i]) : len(prompt_tokens[i]) + output_len]
TrimmedOutput(tokens, prompt, ol) == Slice(tokens, Len0(prompt), Len0(prompt) + ol)

\* generate, lines 549-559: after the loop, the outputs of the call
Finish ==
    /\ pc = "loop"
    /\ i >= LoopRange(max_seq_len, min_prompt_len)
    /\ pc' = "done"
    /\ returned' = Append(returned,
          [status |-> "ok",
           results |-> [b \in Range0(batch_size) |->
                           CutAtEos(TrimmedOutput(token_ids_tensor[b], prompt_tokens[b],
                                                  output_len))]])
    /\ UNCHANGED <<requests, call, gen_locals, s_vars>>

Next == Begin \/ Step \/ Finish

Spec == Init /\ [][Next]_vars

\* ---------------------------------------------------------------- one sampler call
\* the logits, temperature, top_p and top_k of one call for one sequence;
\* every logit is even, so that the division by a temperature is exact
SamplerInputs ==
    [logits : [Tokens -> {2 * x : x \in 0 .. MaxLogit}],
     temperatures : {None, <<1>>, <<2>>},
     top_p : 0 .. TopPDen,
     top_k : 0 .. VocabSize]

SamplerInit ==
    /\ s_pc = "ready" /\ s_in \in SamplerInputs /\ s_out = <<>>
    /\ requests = <<>> /\ call = 0 /\ pc = "idle" /\ returned = <<>>
    /\ NoLocals

\* Sampler.forward of gemma_torch.py, called once
TorchSample ==
    /\ s_pc = "ready"
    /\ \E o \in SamplerForward(s_in.logits, s_in.temperatures, s_in.top_p, s_in.top_k) :
          s_out' = [impl |-> "torch", status |-> o.status, token |-> o.token, run |-> o.run]
    /\ s_pc' = "done"
    /\ UNCHANGED <<s_in, gen_vars>>

\* MLXSampler.__call__ of model_mlx.py, called once
MLXSample ==
    /\ s_pc = "ready"
    /\ \E o \in MLXSamplerCall(s_in.logits, s_in.temperatures, s_in.top_p, s_in.top_k) :
          s_out' = [impl |-> "mlx", status |-> o.status, token |-> o.token, run |-> o.run]
    /\ s_pc' = "done"
    /\ UNCHANGED <<s_in, gen_vars>>

SamplerNext == TorchSample \/ MLXSample

SamplerSpec == SamplerInit /\ [][SamplerNext]_vars

\* ---------------------------------------------------------------- one rotary call
\* the complex number c + s i of the table, as (real, imag)
Cis(c, s) == [k \in Range0(2) |-> IF k = 0 THEN c ELSE s]

\* the entries of the table at a position other than 0, over the integers
RotaryAngles == {Cis(0, 1), Cis(1, 1), Cis(2, 1)}

\* xq or xk of one batch entry, [seq][heads][head_dim], and the rows of the
\* table for its positions; position 0 has angle 0 (precompute_freqs_cis)
RotaryInputs ==
    {[x |-> [c \in Range0(RotSeqLen) |-> [a \in Range0(RotHeads) |->
                [d \in Range0(2 * HalfDim) |-> v[d] + c + 2 * a]]],
      freqs_cis |-> [c \in Range0(RotSeqLen) |-> [j \in Range0(HalfDim) |->
                        IF c = 0 THEN Cis(1, 0) ELSE f[j]]]] :
        v \in [Range0(2 * HalfDim) -> 0 .. MaxX],
        f \in [Range0(HalfDim) -> RotaryAngles]}

RotaryInit ==
    /\ s_pc = "ready" /\ s_in \in RotaryInputs /\ s_out = <<>>
    /\ requests = <<>> /\ call = 0 /\ pc = "idle" /\ returned = <<>>
    /\ NoLocals

\* apply_rotary_emb of gemma_torch.py, called once
TorchRotary ==
    /\ s_pc = "ready"
    /\ s_out' = [impl |-> "torch", out |-> apply_rotary_emb(s_in.x, s_in.freqs_cis)]
    /\ s_pc' = "done"
    /\ UNCHANGED <<s_in, gen_vars>>

\* MLXapply_rotary_emb of model_mlx.py, called once
MLXRotary ==
    /\ s_pc = "ready"
    /\ s_out' = [impl |-> "mlx", out |-> MLXapply_rotary_emb(s_in.x, s_in.freqs_cis)]
    /\ s_pc' = "done"
    /\ UNCHANGED <<s_in, gen_vars>>

RotaryNext == TorchRotary \/ MLXRotary

RotarySpec == RotaryInit /\ [][RotaryNext]_vars

\* ---------------------------------------------------------------- calls on one layer
\* weight * weight_scaler.unsqueeze(-1): row r scaled by weight_scaler[r]
Dequantize(weight, weight_scaler) ==
    [r \in DOMAIN weight |-> [c \in DOMAIN weight[r] |-> weight[r][c] * weight_scaler[r]]]

\* F.linear(x, weight) / x @ weight.T
FLinear(x, weight) ==
    [r \in DOMAIN weight |-> SumFn([c \in DOMAIN x |-> x[c] * weight[r][c]], DOMAIN x)]

\* F.embedding(x, weight) / self.embedding(x): the rows of the token ids x
FEmbedding(x, weight) == [j \in DOMAIN x |-> weight[x[j]]]

\* Linear.forward and MLXLinear.__call__: the weight used is a local, the
\* stored weight stays; returns the stored weight after the call and the output
LinearForward(weight, weight_scaler, quant, x) ==
    [weight |-> weight,
     output |-> FLinear(x, IF quant THEN Dequantize(weight, weight_scaler) ELSE weight)]

\* Embedding.forward of gemma_torch.py
EmbeddingForward(weight, weight_scaler, quant, x) ==
    [weight |-> weight,
     output |-> FEmbedding(x, IF quant THEN Dequantize(weight, weight_scaler) ELSE weight)]

\* MLXEmbedding.__call__: with quant, the scaled weight is assigned to
\* self.embedding.weight and then looked up
MLXEmbeddingCall(weight, weight_scaler, quant, x) ==
    [weight |-> IF quant THEN Dequantize(weight, weight_scaler) ELSE weight,
     output |-> FEmbedding(x, IF quant THEN Dequantize(weight, weight_scaler) ELSE weight)]

\* a loaded layer and the input of the calls made on it: a Linear with a
\* vector, or an Embedding with a tensor of one token id
LayerInputs ==
    {[impl |-> im, layer |-> "Linear", quant |-> q,
      weight |-> [r \in Range0(WDim) |-> [c \in Range0(WDim) |-> 1 + r + c]],
      weight_scaler |-> sc, x |-> [c \in Range0(WDim) |-> c + x0]] :
        im \in {"torch", "mlx"}, q \in BOOLEAN,
        sc \in [Range0(WDim) -> 1 .. MaxScale], x0 \in Range0(WDim)}
    \cup
    {[impl |-> im, layer |-> "Embedding", quant |-> q,
      weight |-> [r \in Range0(WDim) |-> [c \in Range0(WDim) |-> 1 + r + c]],
      weight_scaler |-> sc, x |-> [j \in Range0(1) |-> x0]] :
        im \in {"torch", "mlx"}, q \in BOOLEAN,
        sc \in [Range0(WDim) -> 1 .. MaxScale], x0 \in Range0(WDim)}

\* after load_weights: the layer stores the loaded weight, no call made yet
LayerInit ==
    /\ s_pc = "ready" /\ s_in \in LayerInputs
    /\ s_out = [weight |-> s_in.weight, outputs |-> <<>>]
    /\ requests = <<>> /\ call = 0 /\ pc = "idle" /\ returned = <<>>
    /\ NoLocals

\* one more call of the layer: the stored weight and the outputs after it
LayerCalled(r) ==
    /\ Len(s_out.outputs) < MaxCalls
    /\ s_out' = [weight |-> r.weight, outputs |-> Append(s_out.outputs, r.output)]
    /\ UNCHANGED <<s_pc, s_in, gen_vars>>

TorchLinearCall ==
    /\ s_in.impl = "torch" /\ s_in.layer = "Linear"
    /\ LayerCalled(LinearForward(s_out.weight, s_in.weight_scaler, s_in.quant, s_in.x))

TorchEmbeddingCall ==
    /\ s_in.impl = "torch" /\ s_in.layer = "Embedding"
    /\ LayerCalled(EmbeddingForward(s_out.weight, s_in.weight_scaler, s_in.quant, s_in.x))

MLXLinearCall ==
    /\ s_in.impl = "mlx" /\ s_in.layer = "Linear"
    /\ LayerCalled(LinearForward(s_out.weight, s_in.weight_scaler, s_in.quant, s_in.x))

MLXEmbeddingCalled ==
    /\ s_in.impl = "mlx" /\ s_in.layer = "Embedding"
    /\ LayerCalled(MLXEmbeddingCall(s_out.weight, s_in.weight_scaler, s_in.quant, s_in.x))

LayerNext == TorchLinearCall \/ TorchEmbeddingCall \/ MLXLinearCall \/ MLXEmbeddingCalled

LayerSpec == LayerInit /\ [][LayerNext]_vars

\* ---------------------------------------------------------------- one cache write
\* xk[:, kv_write_indices, ...] of MLX: the rows of xk at the indices. MLX
\* does not check bounds: an index past the end of xk reads an unspecified
\* value, garbage[j]
MLXTake(xk, kv_write_indices, garbage) ==
    [j \in DOMAIN kv_write_indices |->
        IF kv_write_indices[j] \in DOMAIN xk THEN xk[kv_write_indices[j]] ELSE garbage[j]]

\* k_cache[:, kv_write_indices, ...] = xk[:, kv_write_indices, ...]
MLXCacheWrite(cache, kv_write_indices, xk, garbage) ==
    IndexCopy(cache, kv_write_indices, MLXTake(xk, kv_write_indices, garbage))

\* a cache whose first p positions were written by earlier calls
WrittenCache(old) ==
    [t \in Range0(CacheLen) |->
        IF t \in DOMAIN old THEN [v |-> old[t], n |-> 1] ELSE [v |-> 0, n |-> 0]]

\* the cache, the write positions and the new keys of one attention call: a
\* prefill of positions 0..n-1 into a fresh cache, or a decode step at
\* position p > 0 after positions 0..p-1 were written
CacheWriteInputs ==
    {[cache |-> ZeroCache(CacheLen), kv_write_indices |-> [j \in Range0(n) |-> j],
      xk |-> xk] :
        n \in 1 .. CacheLen, xk \in UNION {[Range0(m) -> 1 .. MaxKV] : m \in 1 .. CacheLen}}
    \cup
    {[cache |-> WrittenCache(old), kv_write_indices |-> [j \in Range0(1) |-> Len0(old)],
      xk |-> xk] :
        old \in UNION {[Range0(q) -> 1 .. MaxKV] : q \in 1 .. (CacheLen - 1)},
        xk \in [Range0(1) -> 1 .. MaxKV]}

\* xk has one row per write position
CacheWriteInit ==
    /\ s_pc = "ready" /\ s_in \in CacheWriteInputs
    /\ Len0(s_in.xk) = Len0(s_in.kv_write_indices)
    /\ s_out = <<>>
    /\ requests = <<>> /\ call = 0 /\ pc = "idle" /\ returned = <<>>
    /\ NoLocals

\* GemmaAttention.forward, lines 272-274
TorchCacheWrite ==
    /\ s_pc = "ready"
    /\ s_out' = [impl |-> "torch",
                 cache |-> IndexCopy(s_in.cache, s_in.kv_write_indices, s_in.xk)]
    /\ s_pc' = "done"
    /\ UNCHANGED <<s_in, gen_vars>>

\* MLXGemmaAttention.__call__, lines 258-260
MLXCacheWritten ==
    /\ s_pc = "ready"
    /\ \E garbage \in [DOMAIN s_in.kv_write_indices -> 0 .. MaxKV] :
          s_out' = [impl |-> "mlx",
                    cache |-> MLXCacheWrite(s_in.cache, s_in.kv_write_indices,
                                            s_in.xk, garbage)]
    /\ s_pc' = "done"
    /\ UNCHANGED <<s_in, gen_vars>>

CacheWriteNext == TorchCacheWrite \/ MLXCacheWritten

CacheWriteSpec == CacheWriteInit /\ [][CacheWriteNext]_vars

\* ---------------------------------------------------------------- one key expansion
RECURSIVE RepeatEach(_, _, _)
\* the heads g, g + 1, ... of key in order, each one n times in a row
RepeatEach(key, n, g) ==
    IF g >= Len0(key) THEN <<>>
    ELSE [j \in 1 .. n |-> key[g]] \o RepeatEach(key, n, g + 1)

\* torch.repeat: the whole list of heads, n times over
RepeatTiled(key, n) ==
    [h \in Range0(Len0(key) * n) |-> key[h % Len0(key)]]

\* torch.repeat_interleave(key, n, dim=2)
RepeatInterleave(key, n) ==
    [h \in Range0(Len0(key) * n) |-> RepeatEach(key, n, 0)[h + 1]]

\* mxc.repeat(key, n, axis=2): each head repeated n times, as numpy.repeat
MLXRepeat(key, n) ==
    [h \in Range0(Len0(key) * n) |-> RepeatEach(key, n, 0)[h + 1]]

\* GemmaAttention.forward, lines 276-281
ExpandKey(key, num_heads, num_kv_heads) ==
    IF num_kv_heads # num_heads
    THEN RepeatInterleave(key, num_heads \div num_kv_heads)
    ELSE key

\* MLXGemmaAttention.__call__, lines 262-267
MLXExpandKey(key, num_heads, num_kv_heads) ==
    IF num_kv_heads # num_heads
    THEN MLXRepeat(key, num_heads \div num_kv_heads)
    ELSE key

\* the cached key of each kv head at one position, and the head counts:
\* num_heads is a multiple of num_kv_heads (the assert of __init__)
ExpandInputs ==
    {[key |-> key, num_kv_heads |-> Len0(key), num_heads |-> Len0(key) * q] :
        key \in UNION {[Range0(g) -> 1 .. MaxKV] : g \in 1 .. MaxKVHeads},
        q \in 1 .. MaxQueriesPerKV}

ExpandInit ==
    /\ s_pc = "ready" /\ s_in \in ExpandInputs /\ s_out = <<>>
    /\ requests = <<>> /\ call = 0 /\ pc = "idle" /\ returned = <<>>
    /\ NoLocals

TorchExpand ==
    /\ s_pc = "ready"
    /\ s_out' = [impl |-> "torch",
                 key |-> ExpandKey(s_in.key, s_in.num_heads, s_in.num_kv_heads)]
    /\ s_pc' = "done"
    /\ UNCHANGED <<s_in, gen_vars>>

MLXExpand ==
    /\ s_pc = "ready"
    /\ s_out' = [impl |-> "mlx",
                 key |-> MLXExpandKey(s_in.key, s_in.num_heads, s_in.num_kv_heads)]
    /\ s_pc' = "done"
    /\ UNCHANGED <<s_in, gen_vars>>

ExpandNext == TorchExpand \/ MLXExpand

ExpandSpec == ExpandInit /\ [][ExpandNext]_vars

\* ---------------------------------------------------------------- claims: the samplers
SamplerDone == s_pc = "done"
Sampled == SamplerDone /\ ~s_out.run.greedy

\* the descending rank of sorted position r in a finished call: the torch
\* sampler sorts descending, the MLX sampler ascending
DescRank(r) == IF s_out.impl = "torch" THEN r ELSE VocabSize - 1 - r

\* the probability at descending rank d of a finished call
ProbAtRank(d) ==
    LET r == IF s_out.impl = "torch" THEN d ELSE VocabSize - 1 - d
    IN s_out.run.probs[s_out.run.probs_idx[r]]

\* the length of the smallest non-empty prefix of the descending-sorted
\* probabilities whose cumulative mass reaches top_p
SmallestPrefix ==
    MinOf({n \in 1 .. VocabSize :
             \/ n = VocabSize
             \/ SumFn([d \in Tokens |-> ProbAtRank(d)], Range0(n)) * TopPDen
                   >= s_in.top_p * Total(s_out.run.probs)})

\* C7: after the top-p step of a sampling call, the entries that survive are
\* exactly the smallest prefix of the descending-sorted probabilities whose
\* cumulative mass reaches top_p.
C7_TopPKeepsSmallestPrefix ==
    Sampled =>
        \A r \in Tokens : (s_out.run.after_top_p[r] > 0) <=> (DescRank(r) < SmallestPrefix)

\* C8: with top_k = 1 and a temperature, whatever top_p is, the sampler
\* returns an index that holds the maximal logit, in both samplers.
C8_TopK1ReturnsArgmax ==
    (SamplerDone /\ s_in.temperatures # None /\ s_in.top_k = 1) =>
        /\ s_out.status = "ok"
        /\ \A v \in Tokens : s_in.logits[v] <= s_in.logits[s_out.token]

\* the sorted position of the returned token of a finished call
TokenRank == CHOOSE r \in Tokens : s_out.run.probs_idx[r] = s_out.token

\* C9: the token a sampling call returns survived both filters: its
\* descending rank is below top_k and the top-p step left it in. Stated of
\* the calls whose filters leave at least one candidate (the others are
\* the case of C10).
C9_TokenSurvivedBothFilters ==
    (Sampled /\ s_out.status = "ok" /\ s_out.run.norm_sum > 0) =>
        /\ DescRank(TokenRank) < s_in.top_k
        /\ s_out.run.after_top_p[TokenRank] > 0

\* C10: when the filters leave no candidate the sampler reports a fatal
\* error: it does not divide by the zero sum and returns no token.
C10_EmptyIntersectionIsFatal ==
    (Sampled /\ s_out.run.norm_sum = 0) =>
        /\ ~s_out.run.div_by_zero
        /\ s_out.status # "ok"

\* what holds of the PyTorch sampler alone, with at least one survivor
TorchTopK1Argmax ==
    (SamplerDone /\ s_out.impl = "torch" /\ s_in.temperatures # None /\ s_in.top_k = 1) =>
        /\ s_out.status = "ok"
        /\ \A v \in Tokens : s_in.logits[v] <= s_in.logits[s_out.token]

TorchTokenSurvived ==
    (Sampled /\ s_out.impl = "torch" /\ s_out.status = "ok" /\ s_out.run.norm_sum > 0) =>
        /\ TokenRank < s_in.top_k
        /\ s_out.run.after_top_p[TokenRank] > 0

\* C11: with top_p = 1.0 and top_k = vocab_size the PyTorch sampler masks no
\* entry, and the renormalized distribution it draws from is the softmax of
\* the temperature-scaled logits at every vocabulary index.
C11_NoFilterIsSoftmax ==
    (Sampled /\ s_out.impl = "torch" /\ s_in.top_p = TopPDen /\ s_in.top_k = VocabSize) =>
        /\ s_out.status = "ok"
        /\ \A r \in Tokens :
              s_out.run.after_top_k[r] = s_out.run.probs[s_out.run.probs_idx[r]]
        /\ s_out.run.norm_sum = Total(s_out.run.probs)
        /\ \A v \in Tokens :
              s_out.run.dist[v] * Total(s_out.run.probs)
                 = s_out.run.probs[v] * s_out.run.norm_sum
        /\ s_out.run.probs = Softmax(ScaleLogits(s_in.logits, s_in.temperatures[1]))

\* a call without filters, on logits that are not all equal, drew an index
\* that does not hold the maximal logit
C11_Witness ==
    /\ Sampled /\ s_out.impl = "torch" /\ s_out.status = "ok"
    /\ s_in.top_p = TopPDen /\ s_in.top_k = VocabSize
    /\ s_in.temperatures = <<2>>
    /\ \E v \in Tokens : s_in.logits[v] > s_in.logits[s_out.token]

\* C12: with temperature None a sampler returns argmax(logits), applying
\* neither filter and drawing nothing, whatever top_p and top_k are, in the
\* PyTorch and in the MLX sampler.
C12_GreedyReturnsArgmax ==
    (SamplerDone /\ s_in.temperatures = None) =>
        /\ s_out.status = "ok"
        /\ s_out.run.greedy
        /\ s_out.token = ArgMax(s_in.logits)

\* what holds of the PyTorch sampler alone
TorchGreedyReturnsArgmax ==
    (SamplerDone /\ s_out.impl = "torch" /\ s_in.temperatures = None) =>
        /\ s_out.status = "ok"
        /\ s_out.run.greedy
        /\ s_out.token = ArgMax(s_in.logits)

\* ---------------------------------------------------------------- claims: generate
\* a call is past its setup and its locals are those of the call
InCall == pc = "loop" \/ pc = "done"

\* the requests are a batch of two prompts followed by each prompt alone
IsBatchScenario == Len(requests) = 3

\* the batch scenario is over and none of its three calls raised
ScenarioReturned ==
    /\ IsBatchScenario /\ call = 3 /\ pc = "done" /\ Len(returned) = 3
    /\ \A c \in 1 .. 3 : returned[c].status = "ok"

UnequalPrompts ==
    Len0(requests[1].prompts[0]) # Len0(requests[1].prompts[1])

\* C1: under greedy decoding, a batch of two prompts of unequal length
\* returns for each prompt the token ids that the prompt returns when it is
\* run alone with the same output_len.
C1_BatchEqualsAlone ==
    (ScenarioReturned /\ UnequalPrompts) =>
        /\ returned[1].results[0] = returned[2].results[0]
        /\ returned[1].results[1] = returned[3].results[0]

\* what holds of the batch scenario when no prompt contains the pad id
NoPadInPrompts ==
    \A b \in DOMAIN requests[1].prompts : pad_id \notin Elems(requests[1].prompts[b])

BatchEqualsAloneWithoutPad ==
    (ScenarioReturned /\ NoPadInPrompts) =>
        /\ returned[1].results[0] = returned[2].results[0]
        /\ returned[1].results[1] = returned[3].results[0]

\* C2: during and after the loop, every position of the token buffer inside
\* a sequence's prompt holds that prompt's token, and the token fed to the
\* next step at a prompt position is the prompt token.
C2_PromptTokensKept ==
    InCall =>
        \A b \in Range0(batch_size) :
            /\ \A t \in DOMAIN prompt_tokens[b] :
                  token_ids_tensor[b][t] = prompt_tokens[b][t]
            /\ (pc = "loop" /\ i > 0 /\ output_index - 1 < Len0(prompt_tokens[b])) =>
                  input_token_ids_tensor[b][0] = prompt_tokens[b][output_index - 1]

\* the tokens the forward calls returned for sequence b after its prompt
Generated(b) ==
    [j \in Range0(output_len) |-> next_token_log[Len0(prompt_tokens[b]) + j][b]]

\* the output the last finished call returned for sequence b
Result(b) == returned[Len(returned)].results[b]

\* C3: the output returned for a sequence is the tokens generated after its
\* prompt, cut at and excluding the first eos id among them; an eos id in
\* the prompt does not cut it, and no output contains the eos id.
C3_OutputCutAtFirstEos ==
    pc = "done" =>
        \A b \in Range0(batch_size) :
            /\ Len0(Result(b)) <= output_len
            /\ \A j \in DOMAIN Result(b) :
                  Result(b)[j] = Generated(b)[j] /\ Result(b)[j] # eos_id
            /\ Len0(Result(b)) < output_len => Generated(b)[Len0(Result(b))] = eos_id

\* a call returned an output that an eos id cut after its first token, for a
\* prompt that contains the eos id
C3_Witness ==
    /\ pc = "done"
    /\ \E b \in Range0(batch_size) :
          /\ eos_id \in Elems(prompt_tokens[b])
          /\ Len0(Result(b)) > 0
          /\ Len0(Result(b)) < output_len

\* C4 as stated: the loop stops after output_len steps, or when the
\* absolute position reaches the maximum context length.
C4_StopsAfterOutputLen ==
    pc = "done" => (i = output_len \/ output_index = max_position_embeddings)

\* every call of the scenario has returned or raised
AllCallsOver == call = Len(requests) /\ pc \in {"done", "failed"}

\* the loop never runs more than (max_prompt_len - min_prompt_len) +
\* output_len steps, a call that returns has run exactly that many, and the
\* absolute position stays below the maximum context length
LoopStepsExact ==
    InCall =>
        /\ i <= (max_prompt_len - min_prompt_len) + output_len
        /\ output_index = min_prompt_len + i
        /\ pc = "loop" => output_index - 1 < max_position_embeddings
        /\ pc = "done" => i = (max_prompt_len - min_prompt_len) + output_len

\* more than the steps of any loop of the scenarios
StepBound == MaxPromptLen + MaxOutputLen + 2

\* a number that every step of generate increases: the calls begun, then
\* the position in the call
Measure ==
    call * StepBound + (IF pc = "loop" THEN i
                        ELSE IF pc = "idle" THEN 0 ELSE StepBound - 1)

\* C4, amended: the loop always terminates (every step of generate
\* increases a measure that is bounded, so no run is infinite), after
\* exactly (longest prompt - shortest prompt) + output_len steps, which is
\* output_len only when all prompts have the same length; no position fed
\* reaches the maximum context length.
C4_LoopTerminates ==
    /\ [](LoopStepsExact /\ Measure <= (Len(requests) + 1) * StepBound)
    /\ [][Measure' > Measure]_vars

\* a batch of two prompts of unequal length returned after more than
\* output_len steps
C4_Witness ==
    /\ pc = "done" /\ batch_size = 2
    /\ min_prompt_len < max_prompt_len
    /\ i > output_len

\* C5: a request whose longest prompt plus output_len exceeds
\* max_position_embeddings fails before any KV cache is allocated, and a
\* call that returns has generated all output_len tokens of every
\* sequence: no output is silently truncated by the context length.
C5_ContextLengthIsFatal ==
    /\ (call > 0 /\ max_prompt_len + output_len > max_position_embeddings) =>
          /\ pc = "failed"
          /\ kv_caches = <<>>
          /\ returned[Len(returned)].status = "AssertionError"
    /\ pc = "done" =>
          \A b \in Range0(batch_size) :
              \A j \in Range0(output_len) :
                  /\ Len0(prompt_tokens[b]) + j < max_position_embeddings
                  /\ Len0(prompt_tokens[b]) + j \in DOMAIN next_token_log

\* a request longer than the context length was refused
C5_Witness ==
    /\ pc = "failed" /\ call = 1
    /\ max_prompt_len + output_len > max_position_embeddings
    /\ returned[1].status = "AssertionError"

\* C6: in every forward call, in every layer, the keys the mask leaves to
\* the query at absolute position k are exactly 0..k, and none of them is a
\* cache position that is still zero-initialized when the attention reads.
C6_AttendsOnlyWrittenPast ==
    (InCall /\ attn_log # <<>>) =>
        \A l \in 1 .. num_hidden_layers : \A b \in Range0(batch_size) :
            \A j \in DOMAIN attn_log.positions :
                /\ attn_log.layers[l][b].keys[j] = 0 .. attn_log.positions[j]
                /\ attn_log.layers[l][b].stale[j] = {}

\* a decode step of a batch of unequal prompts, after a prefill of more
\* than one position
C6_Witness ==
    /\ pc = "loop" /\ i >= 2 /\ batch_size = 2
    /\ min_prompt_len < max_prompt_len
    /\ attn_log # <<>>
    /\ attn_log.positions[0] + 1 < max_seq_len

\* ---------------------------------------------------------------- claims: rotary embedding
RotaryDone == s_pc = "done"

\* the rotated pair j of head a at position c: real and imaginary part
OutReal(c, a, j) ==
    s_in.x[c][a][j] * s_in.freqs_cis[c][j][0]
       - s_in.x[c][a][HalfDim + j] * s_in.freqs_cis[c][j][1]

OutImag(c, a, j) ==
    s_in.x[c][a][HalfDim + j] * s_in.freqs_cis[c][j][0]
       + s_in.x[c][a][j] * s_in.freqs_cis[c][j][1]

\* the output has the shape [seq, heads, head_dim] of the input
RotarySameShape ==
    /\ DOMAIN s_out.out = DOMAIN s_in.x
    /\ \A c \in DOMAIN s_in.x :
          /\ DOMAIN s_out.out[c] = DOMAIN s_in.x[c]
          /\ \A a \in DOMAIN s_in.x[c] : DOMAIN s_out.out[c][a] = DOMAIN s_in.x[c][a]

\* C13 as stated: output channel 2j is out_real[j] and output channel
\* 2j + 1 is out_imag[j].
C13_RotaryInterleaved ==
    RotaryDone =>
        /\ RotarySameShape
        /\ \A c \in Range0(RotSeqLen) : \A a \in Range0(RotHeads) :
              \A j \in Range0(HalfDim) :
                  /\ s_out.out[c][a][2 * j] = OutReal(c, a, j)
                  /\ s_out.out[c][a][2 * j + 1] = OutImag(c, a, j)

\* C13, amended: the output keeps the input's layout of two halves: output
\* channel j is out_real[j] and output channel head_dim/2 + j is
\* out_imag[j], the output has the input's shape, and the PyTorch and the
\* MLX variant place every channel identically.
C13_RotaryHalves ==
    RotaryDone =>
        /\ RotarySameShape
        /\ \A c \in Range0(RotSeqLen) : \A a \in Range0(RotHeads) :
              \A j \in Range0(HalfDim) :
                  /\ s_out.out[c][a][j] = OutReal(c, a, j)
                  /\ s_out.out[c][a][HalfDim + j] = OutImag(c, a, j)
        /\ apply_rotary_emb(s_in.x, s_in.freqs_cis)
              = MLXapply_rotary_emb(s_in.x, s_in.freqs_cis)

\* a call rotated a head whose four parts out_real[0], out_real[1],
\* out_imag[0] are told apart by their values
C13_Witness ==
    /\ RotaryDone /\ s_out.impl = "torch"
    /\ \E c \in Range0(RotSeqLen) : \E a \in Range0(RotHeads) :
          /\ OutReal(c, a, 1) # OutImag(c, a, 0)
          /\ OutReal(c, a, 0) # OutReal(c, a, 1)
          /\ s_out.out[c][a][1] = OutReal(c, a, 1)

\* ---------------------------------------------------------------- claims: layer weights
\* C14: after any number of calls the weight a layer stores is the loaded
\* one, and every call returns what the first call returned for the same
\* input.
C14_WeightsStayLoaded ==
    /\ s_out.weight = s_in.weight
    /\ \A k \in 1 .. Len(s_out.outputs) : s_out.outputs[k] = s_out.outputs[1]

\* what holds of the layers of gemma_torch.py and of MLXLinear
OtherLayersStayLoaded ==
    (s_in.impl = "torch" \/ s_in.layer = "Linear") =>
        /\ s_out.weight = s_in.weight
        /\ \A k \in 1 .. Len(s_out.outputs) : s_out.outputs[k] = s_out.outputs[1]

\* ---------------------------------------------------------------- claims: the cache write
\* the positions one call writes
WritePositions == {s_in.kv_write_indices[j] : j \in DOMAIN s_in.kv_write_indices}

\* C15: one attention call stores the j-th new key at cache position P[j]
\* for every j and leaves every other position unchanged, for prefill and
\* for decode calls, in the PyTorch and in the MLX attention block.
C15_WriteAtPositions ==
    s_pc = "done" =>
        /\ \A j \in DOMAIN s_in.kv_write_indices :
              s_out.cache[s_in.kv_write_indices[j]].v = s_in.xk[j]
        /\ \A t \in Range0(CacheLen) \ WritePositions : s_out.cache[t] = s_in.cache[t]

\* what holds of the PyTorch attention block alone
TorchWriteAtPositions ==
    (s_pc = "done" /\ s_out.impl = "torch") =>
        /\ \A j \in DOMAIN s_in.kv_write_indices :
              s_out.cache[s_in.kv_write_indices[j]].v = s_in.xk[j]
        /\ \A t \in Range0(CacheLen) \ WritePositions : s_out.cache[t] = s_in.cache[t]

\* what holds of the MLX attention block on prefill calls
MLXPrefillWriteAtPositions ==
    (s_pc = "done" /\ s_out.impl = "mlx" /\ s_in.kv_write_indices[0] = 0) =>
        /\ \A j \in DOMAIN s_in.kv_write_indices :
              s_out.cache[s_in.kv_write_indices[j]].v = s_in.xk[j]
        /\ \A t \in Range0(CacheLen) \ WritePositions : s_out.cache[t] = s_in.cache[t]

\* ---------------------------------------------------------------- claims: calls in sequence
\* C16: every call that passes the context check starts on caches of its
\* own, one per layer and sequence, zero-initialized and of length
\* longest_prompt + output_len; and two calls with the same arguments made
\* after different earlier calls return the same greedy result.
C16_FreshCachesPerCall ==
    /\ (pc = "loop" /\ i = 0) =>
          /\ DOMAIN kv_caches = 1 .. num_hidden_layers
          /\ \A l \in 1 .. num_hidden_layers :
                /\ DOMAIN kv_caches[l] = Range0(batch_size)
                /\ \A b \in Range0(batch_size) :
                      /\ DOMAIN kv_caches[l][b] = Range0(max_prompt_len + output_len)
                      /\ \A t \in DOMAIN kv_caches[l][b] :
                            kv_caches[l][b][t] = [v |-> 0, n |-> 0]
    /\ (ScenarioReturned /\ requests[2] = requests[3]) => returned[2] = returned[3]

\* the second and the third call of a scenario had the same arguments and
\* returned a non-empty output
C16_Witness ==
    /\ ScenarioReturned /\ requests[2] = requests[3]
    /\ Len0(returned[3].results[0]) > 0
    /\ returned[2] = returned[3]

\* ---------------------------------------------------------------- claims: key expansion
\* C17: after the expansion there is one key per query head, and query head
\* h holds the key of kv head h div (num_heads / num_kv_heads), in the
\* PyTorch and in the MLX attention block.
C17_ContiguousGroups ==
    s_pc = "done" =>
        /\ DOMAIN s_out.key = Range0(s_in.num_heads)
        /\ \A h \in Range0(s_in.num_heads) :
              s_out.key[h] = s_in.key[h \div (s_in.num_heads \div s_in.num_kv_heads)]

\* an expansion of at least two kv heads with different keys, each shared
\* by at least two query heads
C17_Witness ==
    /\ s_pc = "done"
    /\ s_in.num_kv_heads >= 2 /\ s_in.num_heads >= 2 * s_in.num_kv_heads
    /\ s_in.key[0] # s_in.key[1]
    /\ s_out.key[1] = s_in.key[0]

\* ---------------------------------------------------------------- claims: the loop's cursor
\* C18: the first forward call covers positions 0..min_prompt_len-1; every
\* later iteration feeds one token per sequence, the one just stored in the
\* token buffer at the previous output index, at the position after the last
\* position of the previous call, and the output index grows by one.
C18_CursorAdvancesByOne ==
    /\ []((pc = "loop" /\ i = 0) =>
            /\ input_positions_tensor = [j \in Range0(min_prompt_len) |-> j]
            /\ output_index = min_prompt_len
            /\ \A b \in Range0(batch_size) :
                  input_token_ids_tensor[b]
                     = [j \in Range0(min_prompt_len) |-> prompt_tokens[b][j]])
    /\ [][(pc = "loop" /\ pc' = "loop" /\ i' # i) =>
            /\ i' = i + 1
            /\ output_index' = output_index + 1
            /\ DOMAIN input_positions_tensor' = Range0(1)
            /\ input_positions_tensor'[0]
                  = input_positions_tensor[Len0(input_positions_tensor) - 1] + 1
            /\ \A b \in Range0(batch_size) :
                  /\ DOMAIN input_token_ids_tensor'[b] = Range0(1)
                  /\ input_token_ids_tensor'[b][0] = token_ids_tensor'[b][output_index]]_vars

\* the loop is past its second iteration after a prefill of two positions
C18_Witness ==
    /\ pc = "loop" /\ i >= 2 /\ min_prompt_len >= 2
    /\ input_positions_tensor = [j \in Range0(1) |-> min_prompt_len + i - 1]

\* C19: in a call that passed the context check, every position a forward
\* call wrote to the caches and every index of the token buffer written
\* lies in 0..max_seq_len-1, max_seq_len = longest_prompt + output_len, and
\* no cache position of any layer was written more than once.
C19_WritesInRangeOnce ==
    InCall =>
        /\ max_seq_len = max_prompt_len + output_len
        /\ DOMAIN next_token_log \subseteq Range0(max_seq_len)
        /\ attn_log # <<>> =>
              \A j \in DOMAIN attn_log.positions :
                  attn_log.positions[j] \in Range0(max_seq_len)
        /\ \A l \in 1 .. num_hidden_layers : \A b \in Range0(batch_size) :
              \A t \in DOMAIN kv_caches[l][b] : kv_caches[l][b][t].n <= 1

\* a call of a batch of unequal prompts returned with every cache position
\* but the last written once
C19_Witness ==
    /\ pc = "done" /\ batch_size = 2 /\ min_prompt_len < max_prompt_len
    /\ \A l \in 1 .. num_hidden_layers : \A b \in Range0(batch_size) :
          \A t \in Range0(max_seq_len - 1) : kv_caches[l][b][t].n = 1
    /\ (max_seq_len - 1) \in DOMAIN next_token_log

\* the current call was made with a falsy temperature: None or 0
FalsyTemperature ==
    /\ call > 0
    /\ requests[call].temperature \in {None, <<0>>}

\* C20: a call with temperature None or 0 runs the sampler with temperatures
\* None: no step of it fails, and every step returns the argmax of the
\* logits of its forward call, so nothing is divided by the temperature.
C20_ZeroTemperatureIsGreedy ==
    /\ []((InCall /\ FalsyTemperature) => temperatures_tensor = None)
    /\ []((pc = "failed" /\ FalsyTemperature) =>
             returned[Len(returned)].status = "AssertionError")
    /\ [][(pc = "loop" /\ FalsyTemperature /\ i' = i + 1) =>
            \A b \in Range0(batch_size) :
                next_token_log'[output_index][b]
                   = ArgMax(ForwardRow(input_token_ids_tensor[b], input_positions_tensor,
                                       [l \in 1 .. num_hidden_layers |-> kv_caches[l][b]],
                                       curr_mask_tensor, output_positions_tensor).logits)]_vars

\* a call with temperature 0 returned a non-empty output
C20_Witness ==
    /\ pc = "done" /\ call > 0
    /\ requests[call].temperature = <<0>>
    /\ temperatures_tensor = None
    /\ Len0(Result(0)) > 0

====
